---- MODULE Spec2Model ----
(***************************************************************************)
(* The simulation streaming client of Network-Flow-Defence:                *)
(* frontend/src/hooks/useSimulation.js.                                     *)
(*                                                                         *)
(* The hook keeps four React state cells (simulationData, simulationStatus,*)
(* socket, error) and one ref (socketRef).  Its mount effect opens a       *)
(* WebSocket to the primary URL and, from the close handler, retries once  *)
(* on the fallback URL.  The effect closure owns the flag closedByUs.      *)
(*                                                                         *)
(* The browser's WebSocket is modelled by its ready state, as the WHATWG   *)
(* standard defines event delivery: open fires once, on CONNECTING -> OPEN; *)
(* message fires only while the ready state is OPEN; close fires once, on  *)
(* the transition to CLOSED; close() moves CONNECTING/OPEN to CLOSING.     *)
(* Handlers run to completion one at a time (single-threaded event loop).  *)
(* The effect may run more than once over the life of the component        *)
(* (main.jsx renders under React.StrictMode, which runs mount, cleanup,    *)
(* mount); every run is a session with its own closedByUs.                 *)
(***************************************************************************)
EXTENDS Integers, Sequences, FiniteSets, TLC

VARIABLES
    simulationData,    \* useState([]): the step log, a sequence of decoded frames
    simulationStatus,  \* useState('IDLE'): the phase
    socket,            \* useState(null): index into sockets, 0 for null
    error,             \* useState(null): "null" or the message
    socketRef,         \* useRef(null): index into sockets, 0 for null
    closedByUs,        \* one flag per run of the effect (per session)
    sockets,           \* every WebSocket constructed so far, in creation order
    lastEvent,         \* history: the handler or command that ran last
    graphData,         \* useGameData useState(null): NoGraph or the last response
    loading,           \* useGameData useState(false)
    gameError,         \* useGameData useState(null): "null" or the message
    tokensLeft,        \* GameScreen useState(3)
    finalScore,        \* GameScreen useState(null): NoScore or the last score
    inflight,          \* REST requests issued and not yet answered
    issued,            \* number of REST requests issued so far
    tapHandlers        \* the phases captured by the tap handlers on the graph

\* The state of the hook useSimulation and the state of the screen around it.
hookVars == <<simulationData, simulationStatus, socket, error, socketRef,
              closedByUs, sockets>>
screenVars == <<graphData, loading, gameError, tokensLeft, finalScore,
                inflight, issued, tapHandlers>>
vars == <<simulationData, simulationStatus, socket, error, socketRef,
          closedByUs, sockets, lastEvent, graphData, loading, gameError,
          tokensLeft, finalScore, inflight, issued, tapHandlers>>

\* What the presentation layer observes of the session.
observable == <<simulationStatus, simulationData, error>>

------------------------------------------------------------------------------
\* Bounds of the model.
MaxSteps == 2      \* longest step log explored
MaxSessions == 2   \* runs of the mount effect explored
MaxRequests == 3   \* REST requests issued in one behaviour
MaxTokens == 1     \* largest tokens_left a response carries

------------------------------------------------------------------------------
\* Values.
Null == "null"
Undefined == "undefined"
Phases == {"IDLE", "READY", "RUNNING", "COMPLETE", "ERROR", "DISCONNECTED"}

ParseErrorMessage == "Failed to parse simulation data"
ConnectionErrorMessage == "WebSocket connection error"

\* A frame is the text of one message event, described by what JSON.parse
\* makes of it: json = "invalid" (JSON.parse throws), "null" (parses to
\* null), or "object" with the fields the handler reads; an absent field
\* reads as Undefined.
MkFrame(json, status, step, message, nodes) ==
    [json |-> json, status |-> status, step |-> step, message |-> message,
     infected_nodes |-> nodes]

Step0Frame      == MkFrame("object", Undefined, "0", Undefined, {"A"})
Step1Frame      == MkFrame("object", Undefined, "1", Undefined, {"A", "B"})
CompleteFrame   == MkFrame("object", "Simulation_Complete", Undefined, Undefined, {})
ErrorFrame      == MkFrame("object", "ERROR", Undefined, "boom", {})
OtherFrame      == MkFrame("object", "PING", Undefined, Undefined, {})
InvalidFrame    == MkFrame("invalid", Undefined, Undefined, Undefined, {})
NullFrame       == MkFrame("null", Undefined, Undefined, Undefined, {})
NoFrame         == MkFrame("none", Undefined, Undefined, Undefined, {})

\* Frames that carry two markers, a step field that is not a count, or the
\* completion string in another letter case.
CompleteStepFrame  == MkFrame("object", "Simulation_Complete", "2", Undefined, {"A"})
StepErrorFrame     == MkFrame("object", "ERROR", "-1", "boom", {})
StepNullFrame      == MkFrame("object", Undefined, "null", Undefined, {})
StepTextFrame      == MkFrame("object", Undefined, "abc", Undefined, {})
LowerCompleteFrame == MkFrame("object", "simulation_complete", Undefined, Undefined, {})
UpperCompleteFrame == MkFrame("object", "SIMULATION_COMPLETE", Undefined, Undefined, {})

Frames == {Step0Frame, Step1Frame, CompleteFrame, ErrorFrame, OtherFrame,
           InvalidFrame, NullFrame, CompleteStepFrame, StepErrorFrame,
           StepNullFrame, StepTextFrame, LowerCompleteFrame, UpperCompleteFrame}

\* JSON.parse(event.data) followed by the property reads data.status,
\* data.step: both throw into the catch block when the text is not JSON or
\* parses to null.
ParseThrows(f) == f.json \in {"invalid", "null"}

\* Classify without the branch for data.status === 'ERROR'.
Classify_NoErrorBranch(f) ==
    IF ParseThrows(f) THEN "malformed"
    ELSE IF f.status = "Simulation_Complete" THEN "complete"
    ELSE IF f.step # Undefined THEN "step"
    ELSE "other"

\* Classify that tests data.status === 'ERROR' before data.step.
Classify_ErrorFirst(f) ==
    IF ParseThrows(f) THEN "malformed"
    ELSE IF f.status = "Simulation_Complete" THEN "complete"
    ELSE IF f.status = "ERROR" THEN "error"
    ELSE IF f.step # Undefined THEN "step"
    ELSE "other"

\* Classify that tests the truth of data.step instead of its presence:
\* 0 and null are falsy.
Classify_TruthyStep(f) ==
    IF ParseThrows(f) THEN "malformed"
    ELSE IF f.status = "Simulation_Complete" THEN "complete"
    ELSE IF f.step \notin {Undefined, "0", "null"} THEN "step"
    ELSE IF f.status = "ERROR" THEN "error"
    ELSE "other"

\* Classify that compares the status in lower case.
Classify_AnyCase(f) ==
    IF ParseThrows(f) THEN "malformed"
    ELSE IF f.status \in {"Simulation_Complete", "simulation_complete",
                          "SIMULATION_COMPLETE"} THEN "complete"
    ELSE IF f.step # Undefined THEN "step"
    ELSE IF f.status = "ERROR" THEN "error"
    ELSE "other"

\* The branch of ws.onmessage a frame takes.
Classify(f) ==
    IF ParseThrows(f) THEN "malformed"
    ELSE IF f.status = "Simulation_Complete" THEN "complete"
    ELSE IF f.step # Undefined THEN "step"
    ELSE IF f.status = "ERROR" THEN "error"
    ELSE "other"

------------------------------------------------------------------------------
\* Sessions and transports.
Sessions == 1..Len(closedByUs)
Transports == 1..Len(sockets)

\* The fallback transports session s has constructed.
FallbacksOfSession(s) ==
    {t \in Transports : sockets[t].session = s /\ sockets[t].useFallback}

\* The record kept in lastEvent: the operation, the transport it ran on
\* (0 for none), the frame it handled and the phase it found.
Event(op, ws, data) ==
    [op |-> op, ws |-> ws, data |-> data, from |-> simulationStatus]

\* new WebSocket(url) in connect(useFallback), run by session s.
NewSocket(s, useFallback) ==
    [session |-> s, useFallback |-> useFallback, readyState |-> "CONNECTING",
     wasOpen |-> FALSE, sent |-> <<>>]

\* connect(useFallback): construct the socket, setSocket(ws),
\* socketRef.current = ws (the handlers are the actions below).
connect(s, useFallback, base) ==
    /\ sockets' = Append(base, NewSocket(s, useFallback))
    /\ socket' = Len(base) + 1
    /\ socketRef' = Len(base) + 1

\* Values of the screen: graphData and finalScore before the first response,
\* and the initial value of tokensLeft.  A graph carries the request whose
\* answer it is and the new-game request that started the game on screen; a
\* score carries the request whose answer it is.
NoGraph == [req |-> 0, game |-> 0, tokens_left |-> 0]
NoScore == [req |-> 0]
InitialTokens == 3
LoadErrorMessage == "Failed to load new game."

------------------------------------------------------------------------------
Init ==
    /\ simulationData = <<>>
    /\ simulationStatus = "IDLE"
    /\ socket = 0
    /\ error = Null
    /\ socketRef = 0
    /\ closedByUs = <<>>
    /\ sockets = <<>>
    /\ lastEvent = Event("init", 0, NoFrame)
    /\ graphData = NoGraph
    /\ loading = FALSE
    /\ gameError = Null
    /\ tokensLeft = InitialTokens
    /\ finalScore = NoScore
    /\ inflight = {}
    /\ issued = 0
    /\ tapHandlers = {}

\* React.StrictMode (main.jsx) runs the effect of a freshly mounted component
\* as body, cleanup, body in one commit: the cleanup that a second run
\* follows found the transport of its session still connecting.
StrictModeRerun ==
    /\ lastEvent.op = "teardown"
    /\ lastEvent.ws # 0
    /\ ~sockets[lastEvent.ws].useFallback
    /\ ~sockets[lastEvent.ws].wasOpen
    /\ sockets[lastEvent.ws].readyState = "CLOSING"

\* Mount that races the two URLs: connect(false) and connect(true) at once.
Mount_ConnectsBoth ==
    /\ Len(closedByUs) < MaxSessions
    /\ \A s \in Sessions : closedByUs[s]
    /\ Len(closedByUs) = 0 \/ StrictModeRerun
    /\ closedByUs' = Append(closedByUs, FALSE)
    /\ connect(Len(closedByUs) + 1, TRUE,
               Append(sockets, NewSocket(Len(closedByUs) + 1, FALSE)))
    /\ lastEvent' = Event("mount", Len(sockets) + 1, NoFrame)
    /\ UNCHANGED <<simulationData, simulationStatus, error>>

\* The effect body: let closedByUs = false; connect(false).
Mount ==
    /\ Len(closedByUs) < MaxSessions
    /\ \A s \in Sessions : closedByUs[s]
    /\ Len(closedByUs) = 0 \/ StrictModeRerun
    /\ closedByUs' = Append(closedByUs, FALSE)
    /\ connect(Len(closedByUs) + 1, FALSE, sockets)
    /\ lastEvent' = Event("mount", Len(sockets) + 1, NoFrame)
    /\ UNCHANGED <<simulationData, simulationStatus, error>>

\* Teardown that closes the socket without setting closedByUs.
Teardown_NoFlag(s) ==
    /\ ~closedByUs[s]
    /\ socketRef # 0
    /\ sockets[socketRef].readyState \in {"OPEN", "CONNECTING"}
    /\ sockets' = [sockets EXCEPT ![socketRef].readyState = "CLOSING"]
    /\ lastEvent' = Event("teardown", socketRef, NoFrame)
    /\ UNCHANGED <<simulationData, simulationStatus, socket, error, socketRef,
                   closedByUs>>

\* Teardown that closes the socket only when it is OPEN.
Teardown_OnlyOpen(s) ==
    /\ ~closedByUs[s]
    /\ closedByUs' = [closedByUs EXCEPT ![s] = TRUE]
    /\ sockets' =
         IF socketRef # 0 /\ sockets[socketRef].readyState = "OPEN"
         THEN [sockets EXCEPT ![socketRef].readyState = "CLOSING"]
         ELSE sockets
    /\ lastEvent' = Event("teardown", socketRef, NoFrame)
    /\ UNCHANGED <<simulationData, simulationStatus, socket, error, socketRef>>

\* The effect cleanup of session s.
Teardown(s) ==
    /\ ~closedByUs[s]
    /\ closedByUs' = [closedByUs EXCEPT ![s] = TRUE]
    /\ sockets' =
         IF socketRef # 0 /\ sockets[socketRef].readyState \in {"OPEN", "CONNECTING"}
         THEN [sockets EXCEPT ![socketRef].readyState = "CLOSING"]
         ELSE sockets
    /\ lastEvent' = Event("teardown", socketRef, NoFrame)
    /\ UNCHANGED <<simulationData, simulationStatus, socket, error, socketRef>>

\* startSimulation without the phase test of its condition.
startSimulation_NoPhaseCheck ==
    IF socket # 0 /\ sockets[socket].readyState = "OPEN"
    THEN /\ simulationData' = <<>>
         /\ simulationStatus' = "RUNNING"
         /\ error' = Null
         /\ sockets' = [sockets EXCEPT ![socket].sent = Append(@, "START")]
         /\ lastEvent' = Event("start", socket, NoFrame)
         /\ UNCHANGED <<socket, socketRef, closedByUs>>
    ELSE /\ lastEvent' = Event("startRejected", socket, NoFrame)
         /\ UNCHANGED <<simulationData, simulationStatus, socket, error,
                        socketRef, closedByUs, sockets>>

\* startSimulation without setSimulationData([]).
startSimulation_KeepsLog ==
    IF socket # 0 /\ sockets[socket].readyState = "OPEN" /\ simulationStatus = "READY"
    THEN /\ simulationStatus' = "RUNNING"
         /\ error' = Null
         /\ sockets' = [sockets EXCEPT ![socket].sent = Append(@, "START")]
         /\ lastEvent' = Event("start", socket, NoFrame)
         /\ UNCHANGED <<simulationData, socket, socketRef, closedByUs>>
    ELSE /\ lastEvent' = Event("startRejected", socket, NoFrame)
         /\ UNCHANGED <<simulationData, simulationStatus, socket, error,
                        socketRef, closedByUs, sockets>>

\* startSimulation without the test of socket.readyState.
startSimulation_NoOpenCheck ==
    IF socket # 0 /\ simulationStatus = "READY"
    THEN /\ simulationData' = <<>>
         /\ simulationStatus' = "RUNNING"
         /\ error' = Null
         /\ sockets' = [sockets EXCEPT ![socket].sent = Append(@, "START")]
         /\ lastEvent' = Event("start", socket, NoFrame)
         /\ UNCHANGED <<socket, socketRef, closedByUs>>
    ELSE /\ lastEvent' = Event("startRejected", socket, NoFrame)
         /\ UNCHANGED <<simulationData, simulationStatus, socket, error,
                        socketRef, closedByUs, sockets>>

\* startSimulation without setSimulationStatus('RUNNING').
startSimulation_StaysReady ==
    IF socket # 0 /\ sockets[socket].readyState = "OPEN" /\ simulationStatus = "READY"
    THEN /\ simulationData' = <<>>
         /\ error' = Null
         /\ sockets' = [sockets EXCEPT ![socket].sent = Append(@, "START")]
         /\ lastEvent' = Event("start", socket, NoFrame)
         /\ UNCHANGED <<simulationStatus, socket, socketRef, closedByUs>>
    ELSE /\ lastEvent' = Event("startRejected", socket, NoFrame)
         /\ UNCHANGED <<simulationData, simulationStatus, socket, error,
                        socketRef, closedByUs, sockets>>

\* const startSimulation = useCallback(...): the command start().
startSimulation ==
    IF socket # 0 /\ sockets[socket].readyState = "OPEN" /\ simulationStatus = "READY"
    THEN /\ simulationData' = <<>>
         /\ simulationStatus' = "RUNNING"
         /\ error' = Null
         /\ sockets' = [sockets EXCEPT ![socket].sent = Append(@, "START")]
         /\ lastEvent' = Event("start", socket, NoFrame)
         /\ UNCHANGED <<socket, socketRef, closedByUs>>
    ELSE /\ lastEvent' = Event("startRejected", socket, NoFrame)
         /\ UNCHANGED <<simulationData, simulationStatus, socket, error,
                        socketRef, closedByUs, sockets>>

\* resetSimulation without setError(null).
resetSimulation_KeepsError ==
    /\ simulationData' = <<>>
    /\ simulationStatus' = "IDLE"
    /\ lastEvent' = Event("reset", 0, NoFrame)
    /\ UNCHANGED <<error, socket, socketRef, closedByUs, sockets>>

\* resetSimulation that also closes the current socket.
resetSimulation_ClosesSocket ==
    /\ simulationData' = <<>>
    /\ simulationStatus' = "IDLE"
    /\ error' = Null
    /\ sockets' =
         IF socket # 0 /\ sockets[socket].readyState \in {"OPEN", "CONNECTING"}
         THEN [sockets EXCEPT ![socket].readyState = "CLOSING"]
         ELSE sockets
    /\ lastEvent' = Event("reset", 0, NoFrame)
    /\ UNCHANGED <<socket, socketRef, closedByUs>>

\* resetSimulation that leaves the phase READY.
resetSimulation_ToReady ==
    /\ simulationData' = <<>>
    /\ simulationStatus' = "READY"
    /\ error' = Null
    /\ lastEvent' = Event("reset", 0, NoFrame)
    /\ UNCHANGED <<socket, socketRef, closedByUs, sockets>>

\* const resetSimulation = useCallback(...): the command reset().
resetSimulation ==
    /\ simulationData' = <<>>
    /\ simulationStatus' = "IDLE"
    /\ error' = Null
    /\ lastEvent' = Event("reset", 0, NoFrame)
    /\ UNCHANGED <<socket, socketRef, closedByUs, sockets>>

\* OnOpen that sets READY only from IDLE.
OnOpen_OnlyFromIdle(t) ==
    /\ sockets[t].readyState = "CONNECTING"
    /\ sockets' = [sockets EXCEPT ![t].readyState = "OPEN", ![t].wasOpen = TRUE]
    /\ simulationStatus' = IF simulationStatus = "IDLE" THEN "READY" ELSE simulationStatus
    /\ error' = Null
    /\ lastEvent' = Event("open", t, NoFrame)
    /\ UNCHANGED <<simulationData, socket, socketRef, closedByUs>>

\* ws.onopen of transport t.
OnOpen(t) ==
    /\ sockets[t].readyState = "CONNECTING"
    /\ sockets' = [sockets EXCEPT ![t].readyState = "OPEN", ![t].wasOpen = TRUE]
    /\ simulationStatus' = "READY"
    /\ error' = Null
    /\ lastEvent' = Event("open", t, NoFrame)
    /\ UNCHANGED <<simulationData, socket, socketRef, closedByUs>>

\* HandleMessage that skips a step whose index is already in the log.
HandleMessage_Dedup(f) ==
    LET c == Classify(f) IN
    /\ simulationStatus' =
         IF c = "complete" THEN "COMPLETE"
         ELSE IF c = "error" THEN "ERROR"
         ELSE simulationStatus
    /\ simulationData' =
         IF c = "step" /\ \A i \in 1..Len(simulationData) : simulationData[i].step # f.step
         THEN Append(simulationData, f) ELSE simulationData
    /\ error' =
         IF c = "error" THEN f.message
         ELSE IF c = "malformed" THEN ParseErrorMessage
         ELSE error

\* HandleMessage that clears the log when the completion frame arrives.
HandleMessage_CompletionClears(f) ==
    LET c == Classify(f) IN
    /\ simulationStatus' =
         IF c = "complete" THEN "COMPLETE"
         ELSE IF c = "error" THEN "ERROR"
         ELSE simulationStatus
    /\ simulationData' =
         IF c = "step" THEN Append(simulationData, f)
         ELSE IF c = "complete" THEN <<>>
         ELSE simulationData
    /\ error' =
         IF c = "error" THEN f.message
         ELSE IF c = "malformed" THEN ParseErrorMessage
         ELSE error

\* The body of ws.onmessage for one frame.
HandleMessage(f) ==
    LET c == Classify(f) IN
    /\ simulationStatus' =
         IF c = "complete" THEN "COMPLETE"
         ELSE IF c = "error" THEN "ERROR"
         ELSE simulationStatus
    /\ simulationData' =
         IF c = "step" THEN Append(simulationData, f) ELSE simulationData
    /\ error' =
         IF c = "error" THEN f.message
         ELSE IF c = "malformed" THEN ParseErrorMessage
         ELSE error

\* ws.onmessage of transport t, delivering frame f.
OnMessage(t, f) ==
    /\ sockets[t].readyState = "OPEN"
    /\ Classify(f) = "step" => Len(simulationData) < MaxSteps
    /\ HandleMessage(f)
    /\ lastEvent' = Event("message", t, f)
    /\ UNCHANGED <<socket, socketRef, closedByUs, sockets>>

\* OnClose that retries on the fallback URL whatever transport closed.
OnClose_AlwaysRetry(t) ==
    LET ws == sockets[t]
        closed == [sockets EXCEPT ![t].readyState = "CLOSED"]
    IN
    /\ ws.readyState # "CLOSED"
    /\ lastEvent' = Event("close", t, NoFrame)
    /\ UNCHANGED <<simulationData, closedByUs>>
    /\ IF ~closedByUs[ws.session]
       THEN /\ connect(ws.session, TRUE, closed)
            /\ UNCHANGED <<simulationStatus, error>>
       ELSE /\ sockets' = closed
            /\ UNCHANGED <<simulationStatus, error, socket, socketRef>>

\* OnClose without the test of closedByUs.
OnClose_IgnoresClosedByUs(t) ==
    LET ws == sockets[t]
        closed == [sockets EXCEPT ![t].readyState = "CLOSED"]
    IN
    /\ ws.readyState # "CLOSED"
    /\ lastEvent' = Event("close", t, NoFrame)
    /\ UNCHANGED <<simulationData, closedByUs>>
    /\ IF ~ws.useFallback
       THEN /\ connect(ws.session, TRUE, closed)
            /\ UNCHANGED <<simulationStatus, error>>
       ELSE /\ simulationStatus' = "DISCONNECTED"
            /\ error' = ConnectionErrorMessage
            /\ sockets' = closed
            /\ UNCHANGED <<socket, socketRef>>

\* OnClose that retries the primary URL: connect(false) for connect(true).
OnClose_RetriesPrimary(t) ==
    LET ws == sockets[t]
        closed == [sockets EXCEPT ![t].readyState = "CLOSED"]
    IN
    /\ ws.readyState # "CLOSED"
    /\ lastEvent' = Event("close", t, NoFrame)
    /\ UNCHANGED <<simulationData, closedByUs>>
    /\ IF ~closedByUs[ws.session]
       THEN IF ~ws.useFallback
            THEN /\ connect(ws.session, FALSE, closed)
                 /\ UNCHANGED <<simulationStatus, error>>
            ELSE /\ simulationStatus' = "DISCONNECTED"
                 /\ error' = ConnectionErrorMessage
                 /\ sockets' = closed
                 /\ UNCHANGED <<socket, socketRef>>
       ELSE /\ sockets' = closed
            /\ UNCHANGED <<simulationStatus, error, socket, socketRef>>

\* OnClose that reports DISCONNECTED on the primary's close too.
OnClose_DisconnectsOnPrimary(t) ==
    LET ws == sockets[t]
        closed == [sockets EXCEPT ![t].readyState = "CLOSED"]
    IN
    /\ ws.readyState # "CLOSED"
    /\ lastEvent' = Event("close", t, NoFrame)
    /\ UNCHANGED <<simulationData, closedByUs>>
    /\ IF ~closedByUs[ws.session]
       THEN /\ simulationStatus' = "DISCONNECTED"
            /\ error' = ConnectionErrorMessage
            /\ IF ~ws.useFallback
               THEN connect(ws.session, TRUE, closed)
               ELSE sockets' = closed /\ UNCHANGED <<socket, socketRef>>
       ELSE /\ sockets' = closed
            /\ UNCHANGED <<simulationStatus, error, socket, socketRef>>

\* ws.onclose of transport t.
OnClose(t) ==
    LET ws == sockets[t]
        closed == [sockets EXCEPT ![t].readyState = "CLOSED"]
    IN
    /\ ws.readyState # "CLOSED"
    /\ lastEvent' = Event("close", t, NoFrame)
    /\ UNCHANGED <<simulationData, closedByUs>>
    /\ IF ~closedByUs[ws.session]
       THEN IF ~ws.useFallback
            THEN /\ connect(ws.session, TRUE, closed)
                 /\ UNCHANGED <<simulationStatus, error>>
            ELSE /\ simulationStatus' = "DISCONNECTED"
                 /\ error' = ConnectionErrorMessage
                 /\ sockets' = closed
                 /\ UNCHANGED <<socket, socketRef>>
       ELSE /\ sockets' = closed
            /\ UNCHANGED <<simulationStatus, error, socket, socketRef>>

\* OnError that starts the fallback itself instead of leaving it to onclose.
OnError_Retries(t) ==
    /\ sockets[t].readyState # "CLOSED"
    /\ lastEvent' = Event("error", t, NoFrame)
    /\ UNCHANGED <<simulationData, simulationStatus, error, closedByUs>>
    /\ IF ~closedByUs[sockets[t].session] /\ ~sockets[t].useFallback
          /\ FallbacksOfSession(sockets[t].session) = {}
       THEN connect(sockets[t].session, TRUE, sockets)
       ELSE UNCHANGED <<socket, socketRef, sockets>>

\* ws.onerror of transport t: logs only; onclose handles the retry.
OnError(t) ==
    /\ sockets[t].readyState # "CLOSED"
    /\ lastEvent' = Event("error", t, NoFrame)
    /\ UNCHANGED <<simulationData, simulationStatus, socket, error, socketRef,
                   closedByUs, sockets>>

\* The hook on its own: its commands are called directly and the screen
\* around it stays as constructed.
Next ==
    \/ Mount /\ UNCHANGED screenVars
    \/ \E s \in Sessions : Teardown(s) /\ UNCHANGED screenVars
    \/ startSimulation /\ UNCHANGED screenVars
    \/ resetSimulation /\ UNCHANGED screenVars
    \/ \E t \in Transports : OnOpen(t) /\ UNCHANGED screenVars
    \/ \E t \in Transports : \E f \in Frames :
          OnMessage(t, f) /\ UNCHANGED screenVars
    \/ \E t \in Transports : OnClose(t) /\ UNCHANGED screenVars
    \/ \E t \in Transports : OnError(t) /\ UNCHANGED screenVars

Spec == Init /\ [][Next]_vars

------------------------------------------------------------------------------
(***************************************************************************)
(* The screen: pages/GameScreen.jsx with hooks/useGameData.js,             *)
(* components/GameControls.jsx and components/GraphView.jsx.  The screen   *)
(* is mounted (twice under React.StrictMode) and stays mounted; the REST   *)
(* backend answers every request, in any order, with success or failure,   *)
(* and chooses tokens_left.                                                *)
(***************************************************************************)

\* if (v): the values JavaScript takes as false.
Falsy(v) == v \in {Null, Undefined, ""}

\* The return chain of GameScreen: which tree is rendered.
ScreenView ==
    IF loading THEN "loading"
    ELSE IF ~Falsy(gameError) THEN "gameError"
    ELSE IF ~Falsy(error) THEN "simulationError"
    ELSE "main"

\* The screen is mounted: the effect of the last session has run and its
\* cleanup has not.
Mounted == Len(closedByUs) > 0 /\ ~closedByUs[Len(closedByUs)]

\* GameControls is rendered; GraphView renders the Cytoscape component.
ControlsShown == Mounted /\ ScreenView = "main"
GraphShown == Mounted /\ ScreenView = "main" /\ graphData # NoGraph

\* GameControls: the condition under which the start button is rendered.
isDefensePhase == simulationStatus \in {"IDLE", "READY"}
canStartSimulation == isDefensePhase /\ tokensLeft = 0
StartOffered == ControlsShown /\ canStartSimulation

\* GraphView's cy callback runs on every render of the Cytoscape component
\* and adds a tap handler closed over that render's simulationStatus and
\* onNodeClick; handlers are never removed, and go with the component when
\* another tree is rendered.  Handlers that captured the same phase behave
\* alike, so one is kept for each phase.
Rerender ==
    tapHandlers' =
        IF GraphShown'
        THEN (IF GraphShown THEN tapHandlers ELSE {}) \cup {simulationStatus'}
        ELSE {}

\* The handlers that let a tap through: the test of GraphView
\* (simulationStatus !== 'RUNNING') and the test of handleNodeClick, on the
\* phase each handler captured.
PassingHandlers ==
    {h \in tapHandlers : h # "RUNNING" /\ h \in {"IDLE", "READY"}}

Request(id, kind) == [id |-> id, kind |-> kind]
TokenValues == 0..MaxTokens
\* The frames delivered while the screen is mounted, those that change the
\* phase or the error; among them an error frame whose message is the empty
\* string.  The step log enters no decision of the screen.
EmptyErrorFrame == MkFrame("object", "ERROR", Undefined, "", {})
UIFrames == {CompleteFrame, ErrorFrame, EmptyErrorFrame, InvalidFrame}

\* fetchNewGame(): setLoading(true); setError(null); GET /graph/new.
fetchNewGame ==
    /\ issued < MaxRequests
    /\ loading' = TRUE
    /\ gameError' = Null
    /\ issued' = issued + 1
    /\ inflight' = inflight \cup {Request(issued + 1, "new")}
    /\ UNCHANGED <<graphData, tokensLeft>>

\* The mount effects of the screen: useGameData fetches a game, useSimulation
\* connects.
MountScreen ==
    /\ Mount
    /\ fetchNewGame
    /\ UNCHANGED finalScore
    /\ Rerender

\* useEffect(..., [simulationStatus]): a render in which the phase has
\* become COMPLETE is followed by GET /score.
ScoreEffect ==
    IF simulationStatus' = "COMPLETE" /\ simulationStatus # "COMPLETE"
    THEN /\ issued < MaxRequests
         /\ issued' = issued + 1
         /\ inflight' = inflight \cup {Request(issued + 1, "score")}
    ELSE UNCHANGED <<inflight, issued>>

\* A hook event: the screen, if mounted, re-renders and runs its effects.
HookEvent(A) ==
    /\ A
    /\ UNCHANGED <<graphData, loading, gameError, tokensLeft, finalScore>>
    /\ ScoreEffect
    /\ Rerender

\* React.StrictMode: the cleanup of the effects that have just run for the
\* first time, after which they run again.  useGameData's effect has no
\* cleanup; its first request stays in flight.
StrictModeCleanup(s) ==
    /\ s = 1
    /\ lastEvent.op = "mount"
    /\ HookEvent(Teardown(s))

\* The answer to GET /graph/new: setGraphData(response.data) and the effect
\* that copies tokens_left and clears the score, or setError(...); finally
\* setLoading(false).
NewGameResponse(r, ok, n) ==
    /\ r \in inflight
    /\ r.kind = "new"
    /\ inflight' = inflight \ {r}
    /\ loading' = FALSE
    /\ IF ok
       THEN /\ graphData' = [req |-> r.id, game |-> r.id, tokens_left |-> n]
            /\ tokensLeft' = n
            /\ finalScore' = NoScore
            /\ UNCHANGED gameError
       ELSE /\ gameError' = LoadErrorMessage
            /\ UNCHANGED <<graphData, tokensLeft, finalScore>>
    /\ lastEvent' = Event("newGameResponse", 0, NoFrame)
    /\ UNCHANGED <<hookVars, issued>>
    /\ Rerender

\* The answer to POST /defense/{nodeId}: setGraphData(response.data) and the
\* effect that copies tokens_left and clears the score, or an alert.
PlaceResponse(r, ok, n) ==
    /\ r \in inflight
    /\ r.kind = "place"
    /\ inflight' = inflight \ {r}
    /\ IF ok
       THEN /\ graphData' = [req |-> r.id, game |-> graphData.game,
                             tokens_left |-> n]
            /\ tokensLeft' = n
            /\ finalScore' = NoScore
       ELSE UNCHANGED <<graphData, tokensLeft, finalScore>>
    /\ lastEvent' = Event("placeResponse", 0, NoFrame)
    /\ UNCHANGED <<hookVars, issued, loading, gameError>>
    /\ Rerender

\* A tap on a node of the graph: every attached handler runs; each one that
\* passes calls handlePlaceToken, which posts the token.
Tap ==
    LET k == Cardinality(PassingHandlers) IN
    /\ GraphShown
    /\ issued + k <= MaxRequests
    /\ issued' = issued + k
    /\ inflight' = inflight \cup {Request(issued + i, "place") : i \in 1..k}
    /\ lastEvent' = Event("tap", 0, NoFrame)
    /\ UNCHANGED <<hookVars, graphData, loading, gameError, tokensLeft,
                   finalScore>>
    /\ Rerender

\* The answer to GET /score: setFinalScore(response.data), or a log line.
ScoreResponse(r, ok) ==
    /\ r \in inflight
    /\ r.kind = "score"
    /\ inflight' = inflight \ {r}
    /\ finalScore' = IF ok THEN [req |-> r.id] ELSE finalScore
    /\ lastEvent' = Event("scoreResponse", 0, NoFrame)
    /\ UNCHANGED <<hookVars, issued, graphData, loading, gameError, tokensLeft>>
    /\ Rerender

\* A start button rendered whatever the token count and the phase.
ClickStart_Ungated ==
    /\ ControlsShown
    /\ IF graphData # NoGraph /\ simulationStatus = "READY"
       THEN startSimulation
       ELSE /\ lastEvent' = Event("clickStartIgnored", socket, NoFrame)
            /\ UNCHANGED hookVars
    /\ UNCHANGED <<graphData, loading, gameError, tokensLeft, finalScore,
                   inflight, issued>>
    /\ Rerender

\* A click on the start button: handleStartSimulation.
ClickStart ==
    /\ StartOffered
    /\ IF graphData # NoGraph /\ simulationStatus = "READY"
       THEN startSimulation
       ELSE /\ lastEvent' = Event("clickStartIgnored", socket, NoFrame)
            /\ UNCHANGED hookVars
    /\ UNCHANGED <<graphData, loading, gameError, tokensLeft, finalScore,
                   inflight, issued>>
    /\ Rerender

\* A click on the new-game button: handleNewGame.
ClickNewGame ==
    /\ ControlsShown
    /\ fetchNewGame
    /\ resetSimulation
    /\ finalScore' = NoScore
    /\ Rerender

NextUI ==
    \/ MountScreen
    \/ \E s \in Sessions : StrictModeCleanup(s)
    \/ ClickStart
    \/ ClickNewGame
    \/ Tap
    \/ \E r \in inflight : \E ok \in BOOLEAN : \E n \in TokenValues :
          NewGameResponse(r, ok, n)
    \/ \E r \in inflight : \E ok \in BOOLEAN : \E n \in TokenValues :
          PlaceResponse(r, ok, n)
    \/ \E r \in inflight : \E ok \in BOOLEAN : ScoreResponse(r, ok)
    \/ \E t \in Transports : HookEvent(OnOpen(t))
    \/ \E t \in Transports : \E f \in UIFrames : HookEvent(OnMessage(t, f))
    \/ \E t \in Transports : HookEvent(OnClose(t))
    \/ \E t \in Transports : HookEvent(OnError(t))

SpecUI == Init /\ [][NextUI]_vars

------------------------------------------------------------------------------
TypeOK ==
    /\ simulationStatus \in Phases
    /\ Len(simulationData) <= MaxSteps
    /\ socket \in 0..Len(sockets)
    /\ socketRef = socket
    /\ Len(closedByUs) <= MaxSessions
    /\ issued <= MaxRequests
    /\ tokensLeft \in TokenValues \cup {InitialTokens}
    /\ tapHandlers \subseteq Phases
    /\ finalScore.req \in 0..issued
    /\ graphData.game \in 0..issued
    /\ \A r \in inflight : r.id \in 1..issued

------------------------------------------------------------------------------
\* Vocabulary of the properties: the decoder's classes as the protocol
\* describes them, and the steps of the commands and callbacks.
DecodesAsCompletion(f) == f.json = "object" /\ f.status = "Simulation_Complete"
DecodesAsStep(f) ==
    f.json = "object" /\ ~DecodesAsCompletion(f) /\ f.step # Undefined
DecodesAsError(f) ==
    /\ f.json = "object"
    /\ ~DecodesAsCompletion(f)
    /\ f.step = Undefined
    /\ f.status = "ERROR"
IsMalformed(f) == f.json \in {"invalid", "null"}
IsUnrecognized(f) ==
    /\ f.json = "object"
    /\ ~DecodesAsCompletion(f)
    /\ ~DecodesAsStep(f)
    /\ ~DecodesAsError(f)

StartCalled == lastEvent'.op \in {"start", "startRejected"}
ResetCalled == lastEvent'.op = "reset"
FrameHandled == lastEvent'.op = "message"
CallbackOf(t) ==
    lastEvent'.ws = t /\ lastEvent'.op \in {"open", "message", "close", "error"}
SentStart(t) == sockets' = [sockets EXCEPT ![t].sent = Append(@, "START")]
SocketsOf(ss, s) == {t \in 1..Len(ss) : ss[t].session = s}
FallbacksOf(ss, s) == {t \in SocketsOf(ss, s) : ss[t].useFallback}

\* C1: a call of start() in a phase other than READY sends no START and
\* leaves the phase, the step log and the error as they were.
C1_StartRejectedOutsideReady ==
    [][(StartCalled /\ simulationStatus # "READY")
         => (UNCHANGED observable /\ sockets' = sockets)]_vars

C1_Witness ==
    /\ lastEvent.op = "startRejected"
    /\ lastEvent.from = "COMPLETE"
    /\ socket # 0
    /\ sockets[socket].readyState = "OPEN"

\* C2 as stated: in every state with phase READY a call of start() sends
\* one START, clears the step log and moves the phase to RUNNING.
C2_StartInReadyAlwaysSends ==
    [][(StartCalled /\ simulationStatus = "READY")
         => /\ simulationStatus' = "RUNNING"
            /\ simulationData' = <<>>
            /\ socket # 0 /\ SentStart(socket)]_vars

\* C2 amended: in phase READY a call of start() sends exactly one START on
\* the current transport, clears the step log and moves the phase to RUNNING
\* when that transport is open; when it is not open (still connecting,
\* closing or closed) the call sends nothing and changes nothing.
C2_StartInReadyOnOpenSocket ==
    [][(StartCalled /\ simulationStatus = "READY")
         => IF socket # 0 /\ sockets[socket].readyState = "OPEN"
            THEN /\ simulationStatus' = "RUNNING"
                 /\ simulationData' = <<>>
                 /\ SentStart(socket)
            ELSE UNCHANGED observable /\ sockets' = sockets]_vars

C2_Witness ==
    /\ lastEvent.op = "start"
    /\ lastEvent.from = "READY"
    /\ simulationStatus = "RUNNING"
    /\ simulationData = <<>>
    /\ sockets[lastEvent.ws].sent = <<"START">>

\* C3: the step log changes only by appending, at its end, the frame just
\* decoded as a step, or by being cleared by start() or reset(); every step
\* frame handled is appended, whatever its index, and nothing else touches
\* the log.
C3_LogIsArrivalOrder ==
    [][IF FrameHandled /\ DecodesAsStep(lastEvent'.data)
       THEN simulationData' = Append(simulationData, lastEvent'.data)
       ELSE IF lastEvent'.op \in {"start", "reset"}
       THEN simulationData' = <<>>
       ELSE simulationData' = simulationData]_vars

C3_Witness ==
    /\ lastEvent.op = "message"
    /\ simulationData = <<Step1Frame, Step1Frame>>

\* C4: a close of a primary transport that never opened, in a session not
\* torn down, creates exactly one transport, to the fallback URL; a close of
\* the fallback transport in such a session moves the phase to DISCONNECTED
\* and creates none; no session ever has more than two transports or more
\* than one fallback.
C4_OneFallbackThenDisconnected ==
    [][/\ \A t \in Transports :
            (CallbackOf(t) /\ lastEvent'.op = "close"
               /\ ~closedByUs[sockets[t].session])
            => IF sockets[t].useFallback
               THEN /\ simulationStatus' = "DISCONNECTED"
                    /\ Len(sockets') = Len(sockets)
               ELSE ~sockets[t].wasOpen
                    => /\ Len(sockets') = Len(sockets) + 1
                       /\ sockets'[Len(sockets')].useFallback
                       /\ sockets'[Len(sockets')].session = sockets[t].session
                       /\ sockets'[Len(sockets')].readyState = "CONNECTING"
       /\ \A s \in 1..Len(closedByUs') :
            /\ Cardinality(SocketsOf(sockets', s)) <= 2
            /\ Cardinality(FallbacksOf(sockets', s)) <= 1]_vars

C4_Witness ==
    /\ lastEvent.op = "close"
    /\ simulationStatus = "DISCONNECTED"
    /\ sockets[lastEvent.ws].useFallback
    /\ ~closedByUs[sockets[lastEvent.ws].session]
    /\ \A t \in SocketsOf(sockets, sockets[lastEvent.ws].session) :
          sockets[t].readyState = "CLOSED" /\ ~sockets[t].wasOpen

\* C5: after reset(), from whatever phase, the phase is IDLE, the step log
\* is empty and the error is null.
C5_ResetClears ==
    lastEvent.op = "reset"
      => /\ simulationStatus = "IDLE"
         /\ simulationData = <<>>
         /\ error = Null

C5_Witness ==
    /\ lastEvent.op = "reset"
    /\ lastEvent.from = "ERROR"
    /\ simulationStatus = "IDLE"

\* C6: a completion frame handled in phase RUNNING moves the phase to
\* COMPLETE and leaves the step log as it was; after start(), the frames
\* step 0, step 1, completion end in COMPLETE with exactly those two steps.
C6_CompletionWhileRunning ==
    [][(FrameHandled /\ DecodesAsCompletion(lastEvent'.data)
          /\ simulationStatus = "RUNNING")
         => /\ simulationStatus' = "COMPLETE"
            /\ simulationData' = simulationData]_vars

C6_Witness ==
    /\ lastEvent = [op |-> "message", ws |-> 1, data |-> CompleteFrame,
                    from |-> "RUNNING"]
    /\ ~sockets[1].useFallback
    /\ sockets[1].readyState = "OPEN"
    /\ sockets[1].sent = <<"START">>
    /\ simulationStatus = "COMPLETE"
    /\ simulationData = <<Step0Frame, Step1Frame>>

\* C7 as stated: a step frame handled in phase COMPLETE does not change the
\* step log.
C7_LogFrozenAfterComplete ==
    [][(FrameHandled /\ DecodesAsStep(lastEvent'.data)
          /\ simulationStatus = "COMPLETE")
         => simulationData' = simulationData]_vars

\* C8: an error frame (status ERROR, no step field) handled in phase
\* RUNNING sets the phase to ERROR and the error to the frame's message and
\* leaves the step log as it was.
C8_ErrorFrameWhileRunning ==
    [][(FrameHandled /\ DecodesAsError(lastEvent'.data)
          /\ simulationStatus = "RUNNING")
         => /\ simulationStatus' = "ERROR"
            /\ error' = lastEvent'.data.message
            /\ simulationData' = simulationData]_vars

C8_Witness ==
    /\ lastEvent.op = "message"
    /\ lastEvent.data = ErrorFrame
    /\ lastEvent.from = "RUNNING"
    /\ simulationStatus = "ERROR"
    /\ error = "boom"
    /\ simulationData = <<Step0Frame>>

\* C9 as stated: handling a malformed or an unrecognized frame changes
\* neither the phase, nor the step log, nor the error.
C9_BadFrameChangesNothing ==
    [][(FrameHandled
          /\ (IsMalformed(lastEvent'.data) \/ IsUnrecognized(lastEvent'.data)))
         => UNCHANGED observable]_vars

\* C10: once the cleanup of a session has run, no callback (open, message,
\* close, error) of a transport of that session changes the phase, the step
\* log or the error.
C10_NoMutationAfterTeardown ==
    [][\A t \in Transports :
          (CallbackOf(t) /\ closedByUs[sockets[t].session])
          => UNCHANGED observable]_vars

C10_Witness ==
    /\ lastEvent.op = "close"
    /\ lastEvent.from = "RUNNING"
    /\ sockets[lastEvent.ws].useFallback
    /\ closedByUs[sockets[lastEvent.ws].session]
    /\ simulationStatus = "RUNNING"

\* C11: a session whose cleanup has run never constructs another transport,
\* and the close event of a transport the cleanup closed starts no fallback
\* and does not change the phase.
C11_NoTransportAfterTeardown ==
    [][/\ \A s \in Sessions :
            closedByUs[s] => SocketsOf(sockets', s) = SocketsOf(sockets, s)
       /\ \A t \in Transports :
            (CallbackOf(t) /\ lastEvent'.op = "close"
               /\ sockets[t].readyState = "CLOSING")
            => /\ Len(sockets') = Len(sockets)
               /\ simulationStatus' = simulationStatus]_vars

C11_Witness ==
    /\ lastEvent.op = "close"
    /\ lastEvent.from = "READY"
    /\ ~sockets[lastEvent.ws].useFallback
    /\ sockets[lastEvent.ws].wasOpen
    /\ closedByUs[sockets[lastEvent.ws].session]
    /\ SocketsOf(sockets, sockets[lastEvent.ws].session) = {lastEvent.ws}
    /\ simulationStatus = "READY"

\* C12: a session never has two transports that are connecting or open, and
\* a fallback transport is constructed only by the close handler of the
\* primary transport of its session, which is closed by then.
C12_OneLiveTransport ==
    [][/\ \A s \in 1..Len(closedByUs') :
            Cardinality({t \in SocketsOf(sockets', s) :
                sockets'[t].readyState \in {"CONNECTING", "OPEN"}}) <= 1
       /\ \A n \in (Len(sockets) + 1)..Len(sockets') :
            sockets'[n].useFallback
            => /\ lastEvent'.op = "close"
               /\ lastEvent'.ws \in SocketsOf(sockets, sockets'[n].session)
               /\ ~sockets[lastEvent'.ws].useFallback
               /\ sockets'[lastEvent'.ws].readyState = "CLOSED"]_vars

C12_Witness ==
    /\ lastEvent.op = "message"
    /\ sockets[lastEvent.ws].useFallback
    /\ sockets[lastEvent.ws].readyState = "OPEN"
    /\ \E p \in SocketsOf(sockets, sockets[lastEvent.ws].session) :
          ~sockets[p].useFallback /\ sockets[p].readyState = "CLOSED"

\* C13 as stated: the close of a primary transport that had reached the
\* open state constructs no fallback transport.
C13_NoFallbackAfterOpen ==
    [][\A t \in Transports :
          (CallbackOf(t) /\ lastEvent'.op = "close"
             /\ ~sockets[t].useFallback /\ sockets[t].wasOpen)
          => Len(sockets') = Len(sockets)]_vars

\* C14 as stated: in phase ERROR or DISCONNECTED no transport callback
\* (open, message, close, error) changes the phase.
C14_ErrorAndDisconnectedTerminal ==
    [][(simulationStatus \in {"ERROR", "DISCONNECTED"}
          /\ lastEvent'.op \in {"open", "message", "close", "error"})
         => simulationStatus' = simulationStatus]_vars

\* C15: the only change ever made to what a transport has been sent is one
\* START appended while that transport is open; a call of start() while no
\* transport is open sends nothing and changes neither phase, log nor error.
C15_StartOnlyOnOpenTransport ==
    [][/\ \A t \in Transports :
            sockets'[t].sent # sockets[t].sent
            => /\ sockets[t].readyState = "OPEN"
               /\ sockets'[t].sent = Append(sockets[t].sent, "START")
       /\ (StartCalled /\ \A t \in Transports : sockets[t].readyState # "OPEN")
            => (UNCHANGED observable /\ sockets' = sockets)]_vars

C15_Witness ==
    /\ lastEvent.op = "startRejected"
    /\ lastEvent.from = "READY"
    /\ socket # 0
    /\ sockets[socket].useFallback
    /\ sockets[socket].readyState = "CONNECTING"
    /\ \A t \in Transports : sockets[t].sent = <<>>

\* C16: no transport is ever sent more than one START; a START is sent only
\* from phase READY and leaves the phase RUNNING, and the phase becomes
\* READY again only by an open event.
C16_OneStartPerTransport ==
    [][/\ \A t \in 1..Len(sockets') : Len(sockets'[t].sent) <= 1
       /\ (\E t \in Transports : sockets'[t].sent # sockets[t].sent)
            => (simulationStatus = "READY" /\ simulationStatus' = "RUNNING")
       /\ (simulationStatus # "READY" /\ simulationStatus' = "READY")
            => lastEvent'.op = "open"]_vars

C16_Witness ==
    /\ lastEvent.op = "start"
    /\ sockets[lastEvent.ws].useFallback
    /\ sockets[lastEvent.ws].sent = <<"START">>
    /\ \E p \in SocketsOf(sockets, sockets[lastEvent.ws].session) :
          ~sockets[p].useFallback /\ sockets[p].sent = <<"START">>

\* C17: right after the effect body has run, the phase is IDLE, the step
\* log is empty, the error is null, no transport is open, and the new
\* session has exactly one transport: the current one, to the primary URL,
\* connecting.
C17_FreshSession ==
    lastEvent.op = "mount"
      => /\ simulationStatus = "IDLE"
         /\ simulationData = <<>>
         /\ error = Null
         /\ \A t \in Transports : sockets[t].readyState # "OPEN"
         /\ SocketsOf(sockets, Len(closedByUs)) = {socket}
         /\ socket = lastEvent.ws
         /\ socketRef = socket
         /\ ~sockets[socket].useFallback
         /\ sockets[socket].readyState = "CONNECTING"
         /\ ~closedByUs[Len(closedByUs)]

C17_Witness ==
    /\ lastEvent.op = "mount"
    /\ Len(closedByUs) = 1
    /\ Len(sockets) = 1

\* C18: in every state every session has at most two transports: the first
\* to the primary URL and the second, if any, to the fallback URL.
C18_BoundedRetry ==
    \A s \in Sessions :
        LET own == SocketsOf(sockets, s) IN
        /\ Cardinality(own) <= 2
        /\ Cardinality(FallbacksOf(sockets, s)) <= 1
        /\ \A t \in own :
              sockets[t].useFallback <=> (\E p \in own : p < t)

C18_Witness ==
    /\ lastEvent.op = "close"
    /\ lastEvent.from = "COMPLETE"
    /\ sockets[lastEvent.ws].useFallback
    /\ sockets[lastEvent.ws].wasOpen
    /\ simulationStatus = "DISCONNECTED"
    /\ \A t \in SocketsOf(sockets, sockets[lastEvent.ws].session) :
          sockets[t].readyState = "CLOSED"

\* C19 as stated: the error is non-null only in phase ERROR or DISCONNECTED.
C19_ErrorOnlyInFailurePhase ==
    error # Null => simulationStatus \in {"ERROR", "DISCONNECTED"}

\* C20: an open event, in whatever phase, sets the phase to READY and the
\* error to null and leaves the step log as it was.
C20_OpenSetsReady ==
    [][lastEvent'.op = "open"
         => /\ simulationStatus' = "READY"
            /\ error' = Null
            /\ simulationData' = simulationData]_vars

C20_Witness ==
    /\ lastEvent.op = "open"
    /\ lastEvent.from = "COMPLETE"
    /\ lastEvent.ws = socket
    /\ simulationStatus = "READY"
    /\ simulationData = <<Step0Frame>>

\* C21 as stated: the phase becomes RUNNING only by start() from READY and
\* becomes COMPLETE only from RUNNING.
C21_NoPhaseSkipped ==
    [][/\ (simulationStatus' = "RUNNING" /\ simulationStatus # "RUNNING")
            => (lastEvent'.op = "start" /\ simulationStatus = "READY")
       /\ (simulationStatus' = "COMPLETE" /\ simulationStatus # "COMPLETE")
            => simulationStatus = "RUNNING"]_vars

\* C22 as stated: a step frame handled in a phase other than RUNNING is not
\* appended to the step log, and no step frame changes the phase.
C22_StepsOnlyWhileRunning ==
    [][(FrameHandled /\ DecodesAsStep(lastEvent'.data))
         => /\ simulationStatus' = simulationStatus
            /\ simulationStatus # "RUNNING" => simulationData' = simulationData]_vars

\* C23: a frame with the completion status and a step field sets the phase
\* to COMPLETE and appends nothing; a frame with a step field and status
\* ERROR is appended and changes neither the phase nor the error.
C23_ClassificationPrecedence ==
    [][(FrameHandled /\ lastEvent'.data.json = "object"
          /\ lastEvent'.data.step # Undefined)
         => IF lastEvent'.data.status = "Simulation_Complete"
            THEN /\ simulationStatus' = "COMPLETE"
                 /\ simulationData' = simulationData
                 /\ error' = error
            ELSE lastEvent'.data.status = "ERROR"
                 => /\ simulationData' = Append(simulationData, lastEvent'.data)
                    /\ simulationStatus' = simulationStatus
                    /\ error' = error]_vars

C23_Witness ==
    /\ lastEvent.op = "message"
    /\ lastEvent.data = CompleteStepFrame
    /\ lastEvent.from = "RUNNING"
    /\ simulationStatus = "COMPLETE"
    /\ simulationData = <<StepErrorFrame>>
    /\ error = Null

\* C24: a frame without the completion status is appended to the step log
\* exactly when it has a step field, whatever the field's value (0, negative,
\* text, null).
C24_StepFieldPresence ==
    [][(FrameHandled /\ lastEvent'.data.json = "object"
          /\ lastEvent'.data.status # "Simulation_Complete")
         => IF lastEvent'.data.step # Undefined
            THEN simulationData' = Append(simulationData, lastEvent'.data)
            ELSE simulationData' = simulationData]_vars

C24_Witness ==
    /\ lastEvent.op = "message"
    /\ lastEvent.data = StepNullFrame
    /\ simulationData = <<Step0Frame, StepNullFrame>>

\* The completion string in the letter cases the frames use.
CompletionSpellings ==
    {"Simulation_Complete", "simulation_complete", "SIMULATION_COMPLETE"}

\* C25 as stated: a frame whose status is the completion string in any
\* letter case, handled in phase RUNNING, moves the phase to COMPLETE.
C25_CompletionAnyCase ==
    [][(FrameHandled /\ lastEvent'.data.json = "object"
          /\ lastEvent'.data.status \in CompletionSpellings
          /\ simulationStatus = "RUNNING")
         => simulationStatus' = "COMPLETE"]_vars

\* C25 amended: the completion marker is matched exactly; in phase RUNNING
\* a frame with status "Simulation_Complete" moves the phase to COMPLETE,
\* and a frame whose status is that string in another letter case leaves the
\* phase RUNNING.
C25_CompletionExactCase ==
    [][(FrameHandled /\ lastEvent'.data.json = "object"
          /\ lastEvent'.data.status \in CompletionSpellings
          /\ simulationStatus = "RUNNING")
         => IF lastEvent'.data.status = "Simulation_Complete"
            THEN simulationStatus' = "COMPLETE"
            ELSE simulationStatus' = "RUNNING"]_vars

C25_Witness ==
    /\ lastEvent.op = "message"
    /\ lastEvent.data = LowerCompleteFrame
    /\ lastEvent.from = "RUNNING"
    /\ simulationStatus = "RUNNING"

\* C26: reset() constructs no transport, closes none, sends nothing and
\* leaves the current transport and every ready state as they were.
C26_ResetLeavesConnection ==
    [][ResetCalled
         => /\ sockets' = sockets
            /\ socket' = socket
            /\ socketRef' = socketRef
            /\ closedByUs' = closedByUs]_vars

C26_Witness ==
    /\ lastEvent.op = "reset"
    /\ lastEvent.from = "RUNNING"
    /\ socket # 0
    /\ sockets[socket].readyState = "OPEN"
    /\ sockets[socket].sent = <<"START">>

\* C29: the cleanup sets closedByUs and leaves no transport of its session
\* connecting or open (the current one, primary or fallback, goes to
\* CLOSING); so a session whose cleanup has run never has a transport that
\* is connecting or open.
C29_TeardownClosesCurrent ==
    [][/\ \A s \in Sessions :
            (lastEvent'.op = "teardown" /\ ~closedByUs[s] /\ closedByUs'[s])
            => \A t \in SocketsOf(sockets, s) :
                  /\ sockets[t].readyState \in {"CONNECTING", "OPEN"}
                       => (t = socketRef /\ sockets'[t].readyState = "CLOSING")
                  /\ sockets[t].readyState \notin {"CONNECTING", "OPEN"}
                       => sockets'[t] = sockets[t]
       /\ lastEvent'.op = "teardown"
            => \E s \in Sessions : ~closedByUs[s] /\ closedByUs'[s]
       /\ \A s \in 1..Len(closedByUs') :
            closedByUs'[s]
            => \A t \in SocketsOf(sockets', s) :
                  sockets'[t].readyState \in {"CLOSING", "CLOSED"}]_vars

C29_Witness ==
    /\ lastEvent.op = "close"
    /\ sockets[lastEvent.ws].useFallback
    /\ ~sockets[lastEvent.ws].wasOpen
    /\ closedByUs[sockets[lastEvent.ws].session]
    /\ \A t \in SocketsOf(sockets, sockets[lastEvent.ws].session) :
          sockets[t].readyState = "CLOSED"

\* C30: the phase becomes DISCONNECTED only by the close of a fallback
\* transport whose session is not torn down, which sets the error to
\* 'WebSocket connection error' and leaves the step log; the close of a
\* primary transport of such a session changes neither phase, log nor error.
C30_DisconnectedOnlyFromFallback ==
    [][/\ (simulationStatus' = "DISCONNECTED" /\ simulationStatus # "DISCONNECTED")
            => /\ lastEvent'.op = "close"
               /\ sockets[lastEvent'.ws].useFallback
               /\ ~closedByUs[sockets[lastEvent'.ws].session]
               /\ error' = ConnectionErrorMessage
               /\ simulationData' = simulationData
       /\ \A t \in Transports :
            (CallbackOf(t) /\ lastEvent'.op = "close" /\ ~sockets[t].useFallback)
            => UNCHANGED observable]_vars

C30_Witness ==
    /\ lastEvent.op = "close"
    /\ lastEvent.from = "RUNNING"
    /\ ~sockets[lastEvent.ws].useFallback
    /\ ~closedByUs[sockets[lastEvent.ws].session]
    /\ simulationStatus = "RUNNING"
    /\ \A t \in Transports : sockets[t].readyState # "OPEN"
    /\ sockets[socket].useFallback
    /\ sockets[socket].readyState = "CONNECTING"

------------------------------------------------------------------------------
\* Vocabulary of the claims about the screen.
PlaceIssued == \E r \in inflight' \ inflight : r.kind = "place"
StartClicked == lastEvent'.op \in {"start", "startRejected", "clickStartIgnored"}
StartSentNow == \E t \in Transports : SentStart(t)

\* C27: a node click issues a place-token request only when the simulation
\* phase is IDLE or READY; in RUNNING, COMPLETE, ERROR and DISCONNECTED no
\* place-token request is issued.
C27_PlaceOnlyInDefensePhase ==
    [][PlaceIssued => simulationStatus \in {"IDLE", "READY"}]_vars

\* C28: while the controls are rendered the start button can be activated
\* exactly when tokensLeft = 0 and the phase is IDLE or READY; activating it
\* reaches startSimulation() only when a graph is loaded and the phase is
\* READY; and every START sent is sent with tokensLeft = 0 in phase READY.
C28_StartGatedByTokensAndPhase ==
    /\ [](ControlsShown =>
            ((ENABLED ClickStart)
               <=> (tokensLeft = 0 /\ simulationStatus \in {"IDLE", "READY"})))
    /\ [][/\ StartClicked
             => tokensLeft = 0 /\ simulationStatus \in {"IDLE", "READY"}
          /\ lastEvent'.op \in {"start", "startRejected"}
             => graphData # NoGraph /\ simulationStatus = "READY"
          /\ StartSentNow
             => /\ lastEvent'.op = "start"
                /\ tokensLeft = 0
                /\ simulationStatus = "READY"
                /\ graphData # NoGraph]_vars

C28_Witness ==
    /\ lastEvent.op = "start"
    /\ lastEvent.from = "READY"
    /\ simulationStatus = "RUNNING"
    /\ tokensLeft = 0
    /\ graphData # NoGraph
    /\ sockets[socket].sent = <<"START">>

\* C31: reset() called while the current transport is open sets the phase to
\* IDLE and leaves the transport open.  The phase becomes READY only by an
\* onopen, which runs only on a transport that was connecting, never on one
\* that has been open; outside READY every start() is rejected, changes
\* nothing and sends no START.  Once a transport has been open, the only
\* onopen still to come is that of the fallback transport of the same
\* session after that transport, a primary one, has closed: none if it is
\* the fallback.
C31_ResetStrandsOpenTransport ==
    [][/\ (ResetCalled /\ socket # 0 /\ sockets[socket].readyState = "OPEN")
            => /\ simulationStatus' = "IDLE"
               /\ socket' = socket
               /\ sockets'[socket].readyState = "OPEN"
       /\ (simulationStatus' = "READY" /\ simulationStatus # "READY")
            => lastEvent'.op = "open"
       /\ lastEvent'.op = "open"
            => /\ sockets[lastEvent'.ws].readyState = "CONNECTING"
               /\ ~sockets[lastEvent'.ws].wasOpen
               /\ \A t \in Transports :
                    sockets[t].wasOpen
                    => /\ ~sockets[t].useFallback
                       /\ sockets[t].readyState = "CLOSED"
                       /\ sockets[lastEvent'.ws].useFallback
                       /\ sockets[lastEvent'.ws].session = sockets[t].session
       /\ (StartCalled /\ simulationStatus # "READY")
            => /\ lastEvent'.op = "startRejected"
               /\ UNCHANGED observable
       /\ StartSentNow => simulationStatus = "READY"]_vars

\* start() rejected in the phase IDLE that reset() left on an open transport.
C31_Witness ==
    /\ lastEvent.op = "startRejected"
    /\ lastEvent.from = "IDLE"
    /\ simulationStatus = "IDLE"
    /\ socket # 0
    /\ sockets[socket].readyState = "OPEN"
    /\ sockets[socket].wasOpen

\* C32: while the error of the session is not null no control of the screen
\* can be used, and the only event after which the error is null or the
\* controls can be used again is an onopen of a transport.
C32_ErrorScreenUntilOpen ==
    [][error # Null
         => /\ ~ControlsShown
            /\ (error' = Null \/ ControlsShown') => lastEvent'.op = "open"]_vars

ScoreIssued == \E r \in inflight' \ inflight : r.kind = "score"

\* C33: a final-score request is issued only by a step in which the phase
\* becomes COMPLETE, and the score held is never that of a request issued
\* before the new-game request of the game on screen.
C33_NoScoreOfEarlierGame ==
    /\ [][ScoreIssued
            => simulationStatus' = "COMPLETE" /\ simulationStatus # "COMPLETE"]_vars
    /\ [](finalScore # NoScore => finalScore.req > graphData.game)

\* C34: graphData is replaced only by the answer to a request issued later
\* than the one whose answer it holds.
C34_LatestRequestWins ==
    [][graphData' # graphData => graphData'.req > graphData.req]_vars

====
